---- MODULE Spec2Model ----
(***************************************************************************)
(* PeerCloseManager (src/bgp/bgp_peer_close.cc): the state machine that    *)
(* drives graceful, long-lived graceful and non-graceful closure of a BGP  *)
(* peer.                                                                   *)
(*                                                                         *)
(* Every handler that takes mutex_ is one atomic action. The code of a     *)
(* handler is written as an operator over a record `s` holding the fields  *)
(* of the object, so that nested calls (CloseInternal -> CloseComplete ->  *)
(* CloseInternal -> ProcessClosure -> MembershipRequestInternal ->         *)
(* MembershipRequestCallbackInternal) compose as in the source.            *)
(* ProcessSweepStateActions takes no lock and is two steps.                *)
(***************************************************************************)
EXTENDS Integers, Sequences, FiniteSets, TLC

\* ------------------------------------------------------------------ bounds
MaxCloses == 3        \* external Close() calls in one behaviour
NumTables == 2        \* routing tables the peer may be registered to
GrTimeSec == 2        \* GetGracefulRestartTime(), seconds
LlgrTimeSec == 2      \* GetLongLivedGracefulRestartTime(), seconds
MaxOverrun == 1       \* seconds a timer may run past its expiry unserved
MaxLiveCloses == 2    \* external Close() calls to a peer of known behaviour
NumPaths == 2         \* RIB-In paths learnt from the peer
MaxVisits == 2        \* times one walk may visit the same path

\* ------------------------------------------------------------- constants
MsPerSec == 1000

Tables == 1 .. NumTables
Paths == 1 .. NumPaths
Families == {"inet", "inet6"}
UNSPEC == "UNSPEC"

NONE == "NONE"
STALE == "STALE"
GR_TIMER == "GR_TIMER"
LLGR_STALE == "LLGR_STALE"
LLGR_TIMER == "LLGR_TIMER"
SWEEP == "SWEEP"
DELETE == "DELETE"
States == {NONE, STALE, GR_TIMER, LLGR_STALE, LLGR_TIMER, SWEEP, DELETE}

MEMBERSHIP_NONE == "MEMBERSHIP_NONE"
MEMBERSHIP_IN_WAIT == "MEMBERSHIP_IN_WAIT"
MEMBERSHIP_IN_USE == "MEMBERSHIP_IN_USE"

\* What the peer and the server answer during one handler.
Envs ==
    [graceful : BOOLEAN, llgr : BOOLEAN, ready : BOOLEAN,
     can_use : BOOLEAN, mgr : BOOLEAN, fams : SUBSET Families]

\* A handler that starts in NONE or in a walk state never reaches the
\* IsReady() and IsCloseLongLivedGraceful() calls of ProcessClosure; one
\* that starts in a timer state by its timer never reaches IsCloseGraceful().
EnvsFromIdle == {e \in Envs : ~e.ready /\ ~e.llgr}
EnvsFromTimer == {e \in Envs : ~e.graceful}

\* The peer behind peer_close_: "any" answers each call freely; "usable"
\* always has a usable membership manager; "llgr_never_ready" moreover has
\* GR and LLGR negotiated, never becomes ready and is closed gracefully.
ANY == "any"
USABLE == "usable"
LLGR_NEVER_READY == "llgr_never_ready"

Answers(p, envs) ==
    CASE p = ANY -> envs
      [] p = USABLE -> {e \in envs : e.can_use /\ e.mgr}
      [] OTHER -> {e \in envs : e.can_use /\ e.mgr /\ ~e.ready
                                 /\ (e.graceful \/ envs = EnvsFromTimer)
                                 /\ (e.llgr \/ envs = EnvsFromIdle)}

CloseArguments(p) == IF p = LLGR_NEVER_READY THEN {FALSE} ELSE BOOLEAN

CloseBudget(p) == IF p = ANY THEN MaxCloses ELSE MaxLiveCloses

VARIABLES
    state_, close_again_, non_graceful_, gr_elapsed_, llgr_elapsed_,
    membership_state_, families_, stats_, stale_timer_, sweep_timer_,
    ribs, pending, abort, peer,
    moves, cycles, cycle_base, ext_closes, none_entries, gr_sum, llgr_sum,
    gr_spent, llgr_spent, paths, seen, mods, visit

vars ==
    <<state_, close_again_, non_graceful_, gr_elapsed_, llgr_elapsed_,
      membership_state_, families_, stats_, stale_timer_, sweep_timer_,
      ribs, pending, abort, peer,
      moves, cycles, cycle_base, ext_closes, none_entries, gr_sum, llgr_sum,
      gr_spent, llgr_spent, paths, seen, mods, visit>>

\* ----------------------------------------------------------------- timer
\* A one-shot cancellable timer that exposes the time since it was started.
\* status: "idle", "armed", "fired" (expired, callback not yet run),
\* "running" (callback entered).
TimerIdle == [status |-> "idle", time |-> 0, elapsed |-> 0]

TimerStart(t, time) == [status |-> "armed", time |-> time, elapsed |-> 0]

\* A callback that has already been handed out cannot be recalled.
TimerCancel(t) == IF t.status = "armed" THEN TimerIdle ELSE t

GetElapsedTime(t) == t.elapsed

\* ------------------------------------------------------- handler helpers
Abort(s, what) == IF s.abort = "" THEN [s EXCEPT !.abort = what] ELSE s

Inc(s, c) == [s EXCEPT !.stats_[c] = @ + 1]

Terminals(s) == s.stats_.deletes + s.stats_.sweep

Max0(n) == IF n < 0 THEN 0 ELSE n

\* MOVE_TO_STATE. Besides state_ it keeps the record of the transitions of
\* the step being taken: moves (states entered by this handler, empty after
\* a step that is no handler), and for each cycle that ends, the state NONE
\* was entered from and by how much deletes + sweep grew since NONE was
\* left.
MOVE_TO_STATE(s, st) ==
    IF s.state_ = st
    THEN Abort(s, "MOVE_TO_STATE")
    ELSE [s EXCEPT
            !.state_ = st,
            !.moves = Append(@, st),
            !.cycle_base = IF s.state_ = NONE THEN Terminals(s) ELSE @,
            !.cycles = IF st = NONE
                       THEN Append(@, [from |-> s.state_,
                                       delta |-> Terminals(s) - s.cycle_base])
                       ELSE @]

RECURSIVE CloseInternal(_, _)
RECURSIVE ProcessClosure(_, _)
RECURSIVE CloseComplete(_, _)
RECURSIVE MembershipRequestInternal(_, _)
RECURSIVE MembershipRequestCallbackInternal(_, _)

StartRestartTimer(s, time) ==
    [s EXCEPT !.stale_timer_ = TimerStart(TimerCancel(s.stale_timer_), time)]

TriggerSweepStateActions(s) ==
    [s EXCEPT !.sweep_timer_ = TimerStart(TimerCancel(s.sweep_timer_), 0)]

CloseInternal(s, e) ==
    LET s1 == Inc(s, "close") IN
    IF s1.close_again_ THEN s1
    ELSE CASE s1.state_ = NONE -> ProcessClosure(s1, e)
           [] s1.state_ = GR_TIMER ->
                CloseComplete(
                    [Inc(s1, "nested") EXCEPT
                        !.close_again_ = TRUE,
                        !.gr_elapsed_ = @ + GetElapsedTime(s1.stale_timer_)], e)
           [] s1.state_ = LLGR_TIMER ->
                CloseComplete(
                    [Inc(s1, "nested") EXCEPT
                        !.close_again_ = TRUE,
                        !.llgr_elapsed_ = @ + GetElapsedTime(s1.stale_timer_)], e)
           [] OTHER ->
                [Inc(s1, "nested") EXCEPT !.close_again_ = TRUE]

\* ProcessClosure that consults only IsCloseGraceful() in NONE.
ProcessClosure_IgnoreNonGraceful(s, e) ==
    LET moved ==
          CASE s.state_ = NONE ->
                 IF ~e.graceful
                 THEN Inc(MOVE_TO_STATE(s, DELETE), "deletes")
                 ELSE Inc(MOVE_TO_STATE(s, STALE), "stale")
            [] s.state_ = GR_TIMER ->
                 IF e.ready
                 THEN [Inc(MOVE_TO_STATE(s, SWEEP), "sweep") EXCEPT
                          !.gr_elapsed_ = 0, !.llgr_elapsed_ = 0]
                 ELSE IF e.llgr
                 THEN Inc(MOVE_TO_STATE(s, LLGR_STALE), "llgr_stale")
                 ELSE Inc(MOVE_TO_STATE(s, DELETE), "deletes")
            [] s.state_ = LLGR_TIMER ->
                 IF e.ready
                 THEN [Inc(MOVE_TO_STATE(s, SWEEP), "sweep") EXCEPT
                          !.gr_elapsed_ = 0, !.llgr_elapsed_ = 0]
                 ELSE Inc(MOVE_TO_STATE(s, DELETE), "deletes")
            [] OTHER -> Abort(s, "ProcessClosure")
    IN  IF moved.abort # "" THEN moved
        ELSE MembershipRequestInternal(moved, e)

\* ProcessClosure that does not count the SWEEP entered from GR_TIMER.
ProcessClosure_NoSweepCount(s, e) ==
    LET moved ==
          CASE s.state_ = NONE ->
                 IF s.non_graceful_ \/ ~e.graceful
                 THEN Inc(MOVE_TO_STATE(s, DELETE), "deletes")
                 ELSE Inc(MOVE_TO_STATE(s, STALE), "stale")
            [] s.state_ = GR_TIMER ->
                 IF e.ready
                 THEN [MOVE_TO_STATE(s, SWEEP) EXCEPT
                          !.gr_elapsed_ = 0, !.llgr_elapsed_ = 0]
                 ELSE IF e.llgr
                 THEN Inc(MOVE_TO_STATE(s, LLGR_STALE), "llgr_stale")
                 ELSE Inc(MOVE_TO_STATE(s, DELETE), "deletes")
            [] s.state_ = LLGR_TIMER ->
                 IF e.ready
                 THEN [Inc(MOVE_TO_STATE(s, SWEEP), "sweep") EXCEPT
                          !.gr_elapsed_ = 0, !.llgr_elapsed_ = 0]
                 ELSE Inc(MOVE_TO_STATE(s, DELETE), "deletes")
            [] OTHER -> Abort(s, "ProcessClosure")
    IN  IF moved.abort # "" THEN moved
        ELSE MembershipRequestInternal(moved, e)

ProcessClosure(s, e) ==
    LET moved ==
          CASE s.state_ = NONE ->
                 IF s.non_graceful_ \/ ~e.graceful
                 THEN Inc(MOVE_TO_STATE(s, DELETE), "deletes")
                 ELSE Inc(MOVE_TO_STATE(s, STALE), "stale")
            [] s.state_ = GR_TIMER ->
                 IF e.ready
                 THEN [Inc(MOVE_TO_STATE(s, SWEEP), "sweep") EXCEPT
                          !.gr_elapsed_ = 0, !.llgr_elapsed_ = 0]
                 ELSE IF e.llgr
                 THEN Inc(MOVE_TO_STATE(s, LLGR_STALE), "llgr_stale")
                 ELSE Inc(MOVE_TO_STATE(s, DELETE), "deletes")
            [] s.state_ = LLGR_TIMER ->
                 IF e.ready
                 THEN [Inc(MOVE_TO_STATE(s, SWEEP), "sweep") EXCEPT
                          !.gr_elapsed_ = 0, !.llgr_elapsed_ = 0]
                 ELSE Inc(MOVE_TO_STATE(s, DELETE), "deletes")
            [] OTHER -> Abort(s, "ProcessClosure")
    IN  IF moved.abort # "" THEN moved
        ELSE MembershipRequestInternal(moved, e)

\* CloseComplete that clears close_again_ without calling CloseInternal.
CloseComplete_NoRestart(s, e) ==
    LET m == MOVE_TO_STATE(s, NONE) IN
    IF m.abort # "" THEN m
    ELSE LET s1 == [Inc(m, "init") EXCEPT
                       !.stale_timer_ = TimerCancel(m.stale_timer_),
                       !.sweep_timer_ = TimerCancel(m.sweep_timer_),
                       !.families_ = {}]
         IN  IF s1.close_again_
             THEN [s1 EXCEPT !.close_again_ = FALSE]
             ELSE s1

\* CloseComplete that leaves the restart timer running.
CloseComplete_NoCancel(s, e) ==
    LET m == MOVE_TO_STATE(s, NONE) IN
    IF m.abort # "" THEN m
    ELSE LET s1 == [Inc(m, "init") EXCEPT
                       !.sweep_timer_ = TimerCancel(m.sweep_timer_),
                       !.families_ = {}]
         IN  IF s1.close_again_
             THEN CloseInternal([s1 EXCEPT !.close_again_ = FALSE], e)
             ELSE s1

\* CloseComplete that does not count the entry into NONE.
CloseComplete_NoInit(s, e) ==
    LET m == MOVE_TO_STATE(s, NONE) IN
    IF m.abort # "" THEN m
    ELSE LET s1 == [m EXCEPT
                       !.stale_timer_ = TimerCancel(m.stale_timer_),
                       !.sweep_timer_ = TimerCancel(m.sweep_timer_),
                       !.families_ = {}]
         IN  IF s1.close_again_
             THEN CloseInternal([s1 EXCEPT !.close_again_ = FALSE], e)
             ELSE s1

CloseComplete(s, e) ==
    LET m == MOVE_TO_STATE(s, NONE) IN
    IF m.abort # "" THEN m
    ELSE LET s1 == [Inc(m, "init") EXCEPT
                       !.stale_timer_ = TimerCancel(m.stale_timer_),
                       !.sweep_timer_ = TimerCancel(m.sweep_timer_),
                       !.families_ = {}]
         IN  IF s1.close_again_
             THEN CloseInternal([s1 EXCEPT !.close_again_ = FALSE], e)
             ELSE s1

\* MembershipOp that removes the whole registration in every state.
MembershipOp_AlwaysUnregister(st, reg) ==
    IF reg = "full" THEN "Unregister" ELSE "UnregisterRibIn"

\* The membership operation issued for a table in MembershipRequestInternal.
MembershipOp(st, reg) ==
    IF reg = "full"
    THEN (IF st = DELETE THEN "Unregister" ELSE "UnregisterRibOut")
    ELSE (IF st = DELETE THEN "UnregisterRibIn" ELSE "WalkRibIn")

\* MembershipRequestInternal that issues the operations before it finds the
\* membership manager unusable.
MembershipRequestInternal_WaitIssues(s, e) ==
    IF s.membership_state_ = MEMBERSHIP_IN_USE
    THEN Abort(s, "MembershipRequestInternal")
    ELSE LET tables == {t \in Tables : s.ribs[t] # "none"}
             issued == [s EXCEPT !.pending =
                          [t \in Tables |->
                              IF t \in tables
                              THEN MembershipOp(s.state_, s.ribs[t])
                              ELSE s.pending[t]]]
         IN  IF ~e.can_use
             THEN [issued EXCEPT !.membership_state_ = MEMBERSHIP_IN_WAIT]
             ELSE LET s1 == [s EXCEPT !.membership_state_ = MEMBERSHIP_IN_USE]
                  IN  IF ~e.mgr THEN s1
                      ELSE IF tables = {}
                      THEN MembershipRequestCallbackInternal(s1, e)
                      ELSE [issued EXCEPT
                               !.membership_state_ = MEMBERSHIP_IN_USE]

MembershipRequestInternal(s, e) ==
    IF s.membership_state_ = MEMBERSHIP_IN_USE
    THEN Abort(s, "MembershipRequestInternal")
    ELSE IF ~e.can_use
    THEN [s EXCEPT !.membership_state_ = MEMBERSHIP_IN_WAIT]
    ELSE LET s1 == [s EXCEPT !.membership_state_ = MEMBERSHIP_IN_USE]
             tables == {t \in Tables : s1.ribs[t] # "none"}
         IN  IF ~e.mgr THEN s1
             ELSE IF tables = {} THEN MembershipRequestCallbackInternal(s1, e)
             ELSE [s1 EXCEPT !.pending =
                      [t \in Tables |->
                          IF t \in tables
                          THEN MembershipOp(s1.state_, s1.ribs[t])
                          ELSE s1.pending[t]]]

IsMembershipPending(s) == \E t \in Tables : s.pending[t] # "none"

\* MembershipRequestCallbackInternal that arms the GR timer with the full
\* restart time.
MembershipRequestCallbackInternal_NoOffset(s, e) ==
    IF s.membership_state_ # MEMBERSHIP_IN_USE
    THEN Abort(s, "MembershipRequestCallbackInternal")
    ELSE IF IsMembershipPending(s) THEN s
    ELSE LET s1 == [s EXCEPT !.membership_state_ = MEMBERSHIP_NONE] IN
         IF s1.state_ = DELETE
         THEN LET m == MOVE_TO_STATE(s1, NONE) IN
              [Inc(m, "init") EXCEPT
                  !.gr_elapsed_ = 0, !.llgr_elapsed_ = 0,
                  !.close_again_ = FALSE, !.non_graceful_ = FALSE]
         ELSE IF s1.close_again_ THEN CloseComplete(s1, e)
         ELSE IF s1.state_ = STALE
         THEN LET m == [MOVE_TO_STATE(s1, GR_TIMER) EXCEPT !.families_ = e.fams]
                  time == GrTimeSec * MsPerSec
              IN  Inc(StartRestartTimer(m, time), "gr_timer")
         ELSE IF s1.state_ = LLGR_STALE
         THEN LET m == [MOVE_TO_STATE(s1, LLGR_TIMER) EXCEPT !.families_ = e.fams]
                  full == StartRestartTimer(m, MsPerSec * LlgrTimeSec)
                  time == Max0(LlgrTimeSec * MsPerSec - full.llgr_elapsed_)
              IN  Inc(StartRestartTimer(full, time), "llgr_timer")
         ELSE TriggerSweepStateActions(s1)

\* MembershipRequestCallbackInternal that does not reset membership_state_.
MembershipRequestCallbackInternal_KeepInUse(s, e) ==
    IF s.membership_state_ # MEMBERSHIP_IN_USE
    THEN Abort(s, "MembershipRequestCallbackInternal")
    ELSE IF IsMembershipPending(s) THEN s
    ELSE LET s1 == s IN
         IF s1.state_ = DELETE
         THEN LET m == MOVE_TO_STATE(s1, NONE) IN
              [Inc(m, "init") EXCEPT
                  !.gr_elapsed_ = 0, !.llgr_elapsed_ = 0,
                  !.close_again_ = FALSE, !.non_graceful_ = FALSE]
         ELSE IF s1.close_again_ THEN CloseComplete(s1, e)
         ELSE IF s1.state_ = STALE
         THEN LET m == [MOVE_TO_STATE(s1, GR_TIMER) EXCEPT !.families_ = e.fams]
                  time == Max0(GrTimeSec * MsPerSec - m.gr_elapsed_)
              IN  Inc(StartRestartTimer(m, time), "gr_timer")
         ELSE IF s1.state_ = LLGR_STALE
         THEN LET m == [MOVE_TO_STATE(s1, LLGR_TIMER) EXCEPT !.families_ = e.fams]
                  full == StartRestartTimer(m, MsPerSec * LlgrTimeSec)
                  time == Max0(LlgrTimeSec * MsPerSec - full.llgr_elapsed_)
              IN  Inc(StartRestartTimer(full, time), "llgr_timer")
         ELSE TriggerSweepStateActions(s1)

\* MembershipRequestCallbackInternal that enters LLGR_TIMER without starting
\* the restart timer.
MembershipRequestCallbackInternal_NoLlgrTimer(s, e) ==
    IF s.membership_state_ # MEMBERSHIP_IN_USE
    THEN Abort(s, "MembershipRequestCallbackInternal")
    ELSE IF IsMembershipPending(s) THEN s
    ELSE LET s1 == [s EXCEPT !.membership_state_ = MEMBERSHIP_NONE] IN
         IF s1.state_ = DELETE
         THEN LET m == MOVE_TO_STATE(s1, NONE) IN
              [Inc(m, "init") EXCEPT
                  !.gr_elapsed_ = 0, !.llgr_elapsed_ = 0,
                  !.close_again_ = FALSE, !.non_graceful_ = FALSE]
         ELSE IF s1.close_again_ THEN CloseComplete(s1, e)
         ELSE IF s1.state_ = STALE
         THEN LET m == [MOVE_TO_STATE(s1, GR_TIMER) EXCEPT !.families_ = e.fams]
                  time == Max0(GrTimeSec * MsPerSec - m.gr_elapsed_)
              IN  Inc(StartRestartTimer(m, time), "gr_timer")
         ELSE IF s1.state_ = LLGR_STALE
         THEN LET m == [MOVE_TO_STATE(s1, LLGR_TIMER) EXCEPT !.families_ = e.fams]
              IN  Inc(m, "llgr_timer")
         ELSE TriggerSweepStateActions(s1)

\* The first assertion of the source reads
\*   state_ == STALE || LLGR_STALE || state_ == SWEEP || state_ == DELETE
\* whose second operand is the non-zero enumerator itself: it cannot fail.
MembershipRequestCallbackInternal(s, e) ==
    IF s.membership_state_ # MEMBERSHIP_IN_USE
    THEN Abort(s, "MembershipRequestCallbackInternal")
    ELSE IF IsMembershipPending(s) THEN s
    ELSE LET s1 == [s EXCEPT !.membership_state_ = MEMBERSHIP_NONE] IN
         IF s1.state_ = DELETE
         THEN LET m == MOVE_TO_STATE(s1, NONE) IN
              [Inc(m, "init") EXCEPT
                  !.gr_elapsed_ = 0, !.llgr_elapsed_ = 0,
                  !.close_again_ = FALSE, !.non_graceful_ = FALSE]
         ELSE IF s1.close_again_ THEN CloseComplete(s1, e)
         ELSE IF s1.state_ = STALE
         THEN LET m == [MOVE_TO_STATE(s1, GR_TIMER) EXCEPT !.families_ = e.fams]
                  time == Max0(GrTimeSec * MsPerSec - m.gr_elapsed_)
              IN  Inc(StartRestartTimer(m, time), "gr_timer")
         ELSE IF s1.state_ = LLGR_STALE
         THEN LET m == [MOVE_TO_STATE(s1, LLGR_TIMER) EXCEPT !.families_ = e.fams]
                  full == StartRestartTimer(m, MsPerSec * LlgrTimeSec)
                  time == Max0(LlgrTimeSec * MsPerSec - full.llgr_elapsed_)
              IN  Inc(StartRestartTimer(full, time), "llgr_timer")
         ELSE TriggerSweepStateActions(s1)

\* ---------------------------------------------------------- RIB-In paths
\* The table a path is in.
PathTable(p) == ((p - 1) % NumTables) + 1

Stale == "Stale"
LlgrStale == "LlgrStale"

IsStale(path) == Stale \in path.flags
IsLlgrStale(path) == LlgrStale \in path.flags

\* table->InputCommon(): a delete removes the path, an add/change replaces
\* it by one with the flags given; the route is modified either way.
InputCommon(path, oper, flags) ==
    [modified |-> TRUE,
     path |-> IF oper = "DB_ENTRY_DELETE"
              THEN [path EXCEPT !.present = FALSE, !.flags = {}]
              ELSE [path EXCEPT !.flags = flags]]

Unmodified(path) == [modified |-> FALSE, path |-> path]

\* MembershipPathCallback that deletes every path it visits in SWEEP.
MembershipPathCallback_SweepAll(st, path) ==
    CASE st \in {NONE, GR_TIMER, LLGR_TIMER} -> Unmodified(path)
      [] st = SWEEP -> InputCommon(path, "DB_ENTRY_DELETE", {})
      [] st = DELETE -> InputCommon(path, "DB_ENTRY_DELETE", path.flags)
      [] st = STALE ->
           IF IsStale(path) THEN Unmodified(path)
           ELSE InputCommon(path, "DB_ENTRY_ADD_CHANGE",
                            path.flags \cup {Stale})
      [] st = LLGR_STALE ->
           IF path.no_llgr
           THEN InputCommon(path, "DB_ENTRY_DELETE", path.flags)
           ELSE IF IsLlgrStale(path) THEN Unmodified(path)
           ELSE InputCommon(path, "DB_ENTRY_ADD_CHANGE",
                            path.flags \cup {LlgrStale})

\* MembershipPathCallback without the IsStale() test of STALE.
MembershipPathCallback_NoStaleCheck(st, path) ==
    CASE st \in {NONE, GR_TIMER, LLGR_TIMER} -> Unmodified(path)
      [] st = SWEEP ->
           IF ~IsStale(path) /\ ~IsLlgrStale(path) THEN Unmodified(path)
           ELSE InputCommon(path, "DB_ENTRY_DELETE", {})
      [] st = DELETE -> InputCommon(path, "DB_ENTRY_DELETE", path.flags)
      [] st = STALE ->
           InputCommon(path, "DB_ENTRY_ADD_CHANGE", path.flags \cup {Stale})
      [] st = LLGR_STALE ->
           IF path.no_llgr
           THEN InputCommon(path, "DB_ENTRY_DELETE", path.flags)
           ELSE IF IsLlgrStale(path) THEN Unmodified(path)
           ELSE InputCommon(path, "DB_ENTRY_ADD_CHANGE",
                            path.flags \cup {LlgrStale})

MembershipPathCallback(st, path) ==
    CASE st \in {NONE, GR_TIMER, LLGR_TIMER} -> Unmodified(path)
      [] st = SWEEP ->
           IF ~IsStale(path) /\ ~IsLlgrStale(path) THEN Unmodified(path)
           ELSE InputCommon(path, "DB_ENTRY_DELETE", {})
      [] st = DELETE -> InputCommon(path, "DB_ENTRY_DELETE", path.flags)
      [] st = STALE ->
           IF IsStale(path) THEN Unmodified(path)
           ELSE InputCommon(path, "DB_ENTRY_ADD_CHANGE",
                            path.flags \cup {Stale})
      [] st = LLGR_STALE ->
           IF path.no_llgr
           THEN InputCommon(path, "DB_ENTRY_DELETE", path.flags)
           ELSE IF IsLlgrStale(path) THEN Unmodified(path)
           ELSE InputCommon(path, "DB_ENTRY_ADD_CHANGE",
                            path.flags \cup {LlgrStale})

\* --------------------------------------------------------------- handlers
Close(s, non_graceful, e) ==
    CloseInternal([s EXCEPT !.non_graceful_ = @ \/ non_graceful], e)

\* ProcessEORMarkerReceived without the test for families_ being non-empty.
ProcessEORMarkerReceived_AlwaysRearm(s, family) ==
    IF s.state_ = GR_TIMER \/ s.state_ = LLGR_TIMER
    THEN LET s1 == [s EXCEPT !.families_ =
                       IF family = UNSPEC THEN {} ELSE @ \ {family}]
         IN  IF s1.families_ = {} THEN StartRestartTimer(s1, 0) ELSE s1
    ELSE s

ProcessEORMarkerReceived(s, family) ==
    IF (s.state_ = GR_TIMER \/ s.state_ = LLGR_TIMER) /\ s.families_ # {}
    THEN LET s1 == [s EXCEPT !.families_ =
                       IF family = UNSPEC THEN {} ELSE @ \ {family}]
         IN  IF s1.families_ = {} THEN StartRestartTimer(s1, 0) ELSE s1
    ELSE s

\* RestartTimerCallback that does not look at state_.
RestartTimerCallback_NoStateCheck(s, e) == ProcessClosure(s, e)

RestartTimerCallback(s, e) ==
    IF s.state_ = GR_TIMER \/ s.state_ = LLGR_TIMER
    THEN ProcessClosure(s, e)
    ELSE s

\* ProcessSweepStateActions up to and including GracefulRestartSweep().
SweepStateAssert(s) ==
    IF s.state_ # SWEEP THEN Abort(s, "ProcessSweepStateActions") ELSE s

ProcessSweepStateActions(s, e) == CloseComplete(s, e)

\* CloseComplete as the sweep callback runs it, without mutex_, up to the
\* point where CloseInternal and ProcessClosure have dispatched on
\* state_ == NONE: the callback is then about to execute the NONE case of
\* ProcessClosure ("closing"), or has returned.
CloseCompleteDispatch(s) ==
    LET m == MOVE_TO_STATE(s, NONE) IN
    IF m.abort # "" THEN m
    ELSE LET s1 == [Inc(m, "init") EXCEPT
                       !.stale_timer_ = TimerCancel(m.stale_timer_),
                       !.families_ = {}]
         IN  IF s1.close_again_
             THEN [Inc(s1, "close") EXCEPT
                      !.close_again_ = FALSE,
                      !.sweep_timer_.status = "closing"]
             ELSE [s1 EXCEPT !.sweep_timer_ = TimerIdle]

\* The NONE case of ProcessClosure and what follows it, executed by a
\* thread that dispatched on state_ == NONE earlier.
ProcessClosureCaseNone(s, e) ==
    LET moved == IF s.non_graceful_ \/ ~e.graceful
                 THEN Inc(MOVE_TO_STATE(s, DELETE), "deletes")
                 ELSE Inc(MOVE_TO_STATE(s, STALE), "stale")
    IN  IF moved.abort # "" THEN moved
        ELSE MembershipRequestInternal(moved, e)

MembershipRequest(s, e) == MembershipRequestInternal(s, e)

MembershipRequestCallback(s, e) == MembershipRequestCallbackInternal(s, e)

\* What a finished membership operation leaves of the registration.
RegistrationAfter(op, reg) ==
    CASE op = "Unregister" -> "none"
      [] op = "UnregisterRibIn" -> "none"
      [] op = "UnregisterRibOut" -> "ribin"
      [] OTHER -> reg

\* ------------------------------------------------------------ the object
\* The fields as a handler finds them; the per-handler records start empty.
PCM ==
    [state_ |-> state_, close_again_ |-> close_again_,
     non_graceful_ |-> non_graceful_, gr_elapsed_ |-> gr_elapsed_,
     llgr_elapsed_ |-> llgr_elapsed_, membership_state_ |-> membership_state_,
     families_ |-> families_, stats_ |-> stats_,
     stale_timer_ |-> stale_timer_, sweep_timer_ |-> sweep_timer_,
     ribs |-> ribs, pending |-> pending, abort |-> abort,
     moves |-> <<>>, cycles |-> <<>>, cycle_base |-> cycle_base]

NoneEntered(r) == Cardinality({i \in DOMAIN r.moves : r.moves[i] = NONE})

ElapsedReset(r) ==
    \/ \E i \in DOMAIN r.moves : r.moves[i] = SWEEP
    \/ \E i \in DOMAIN r.cycles : r.cycles[i].from = DELETE

\* The state after a handler that returned r; gr_add and llgr_add are the
\* timer readings a nested close took when it was entered.
Commit(r, gr_add, llgr_add) ==
    /\ state_' = r.state_
    /\ close_again_' = r.close_again_
    /\ non_graceful_' = r.non_graceful_
    /\ gr_elapsed_' = r.gr_elapsed_
    /\ llgr_elapsed_' = r.llgr_elapsed_
    /\ membership_state_' = r.membership_state_
    /\ families_' = r.families_
    /\ stats_' = r.stats_
    /\ stale_timer_' = r.stale_timer_
    /\ sweep_timer_' = r.sweep_timer_
    /\ ribs' = r.ribs
    /\ pending' = r.pending
    /\ abort' = r.abort
    /\ peer' = peer
    /\ moves' = r.moves
    /\ cycles' = r.cycles
    /\ cycle_base' = r.cycle_base
    /\ none_entries' = none_entries + NoneEntered(r)
    /\ gr_sum' = IF ElapsedReset(r) THEN 0 ELSE gr_sum + gr_add
    /\ llgr_sum' = IF ElapsedReset(r) THEN 0 ELSE llgr_sum + llgr_add
    /\ gr_spent' = IF ElapsedReset(r) THEN 0 ELSE gr_spent
    /\ llgr_spent' = IF ElapsedReset(r) THEN 0 ELSE llgr_spent
    /\ paths' = paths
    /\ visit' = 0
    /\ seen' = IF r.moves # <<>> THEN [p \in Paths |-> 0] ELSE seen
    /\ mods' = IF r.moves # <<>> THEN [p \in Paths |-> 0] ELSE mods

Constructed ==
    /\ state_ = NONE
    /\ close_again_ = FALSE
    /\ non_graceful_ = FALSE
    /\ gr_elapsed_ = 0
    /\ llgr_elapsed_ = 0
    /\ membership_state_ = MEMBERSHIP_NONE
    /\ families_ = {}
    /\ stats_ = [init |-> 1, close |-> 0, nested |-> 0, deletes |-> 0,
                 stale |-> 0, llgr_stale |-> 0, sweep |-> 0, gr_timer |-> 0,
                 llgr_timer |-> 0]
    /\ stale_timer_ = TimerIdle
    /\ sweep_timer_ = TimerIdle
    /\ ribs \in [Tables -> {"none", "ribin", "full"}]
    /\ pending = [t \in Tables |-> "none"]
    /\ abort = ""
    /\ moves = <<>>
    /\ cycles = <<>>
    /\ cycle_base = 0
    /\ ext_closes = 0
    /\ none_entries = 1
    /\ gr_sum = 0
    /\ llgr_sum = 0
    /\ gr_spent = 0
    /\ llgr_spent = 0
    /\ seen = [p \in Paths |-> 0]
    /\ mods = [p \in Paths |-> 0]
    /\ visit = 0

\* No path has been learnt from the peer.
NoPaths ==
    paths = [p \in Paths |-> [present |-> FALSE, flags |-> {},
                              no_llgr |-> FALSE]]

Init == Constructed /\ peer = ANY /\ NoPaths

\* --------------------------------------------------------------- actions
close ==
    /\ abort = ""
    /\ ext_closes < CloseBudget(peer)
    /\ \E non_graceful \in CloseArguments(peer),
          e \in Answers(peer, EnvsFromIdle) :
          Commit(Close(PCM, non_graceful, e),
                 IF state_ = GR_TIMER /\ ~close_again_
                 THEN stale_timer_.elapsed ELSE 0,
                 IF state_ = LLGR_TIMER /\ ~close_again_
                 THEN stale_timer_.elapsed ELSE 0)
    /\ ext_closes' = ext_closes + 1

eor_received ==
    /\ abort = ""
    /\ \E family \in Families \cup {UNSPEC} :
          Commit(ProcessEORMarkerReceived(PCM, family), 0, 0)
    /\ UNCHANGED ext_closes

\* The restart timer reaches its expiry time: its callback is handed out.
restart_timer_expires ==
    /\ abort = ""
    /\ stale_timer_.status = "armed"
    /\ stale_timer_.elapsed >= stale_timer_.time
    /\ stale_timer_' = [stale_timer_ EXCEPT !.status = "fired"]
    /\ UNCHANGED <<state_, close_again_, non_graceful_, gr_elapsed_,
                   llgr_elapsed_, membership_state_, families_, stats_,
                   sweep_timer_, ribs, pending, abort, peer,
                   cycle_base, ext_closes, none_entries, gr_sum, llgr_sum,
                   gr_spent, llgr_spent, paths, seen, mods>>
    /\ visit' = 0
    /\ moves' = <<>>
    /\ cycles' = <<>>

\* The part of the coming second that is spent waiting in timer phase ph:
\* all of it while the restart timer of that phase has not yet expired.
WindowTime(ph) ==
    IF state_ = ph /\ stale_timer_.status = "armed"
          /\ stale_timer_.elapsed < stale_timer_.time
    THEN MsPerSec ELSE 0

\* One second passes on the restart timer's clock.
tick ==
    /\ abort = ""
    /\ stale_timer_.status \in {"armed", "fired"}
    /\ stale_timer_.elapsed < stale_timer_.time + MaxOverrun * MsPerSec
    /\ stale_timer_' = [stale_timer_ EXCEPT !.elapsed = @ + MsPerSec]
    /\ UNCHANGED <<state_, close_again_, non_graceful_, gr_elapsed_,
                   llgr_elapsed_, membership_state_, families_, stats_,
                   sweep_timer_, ribs, pending, abort, peer,
                   cycle_base, ext_closes, none_entries, gr_sum, llgr_sum,
                   gr_spent, llgr_spent, paths, seen, mods>>
    /\ visit' = 0
    /\ moves' = <<>>
    /\ cycles' = <<>>

\* The same second, with the time spent in the restart windows recorded.
tick_measured ==
    /\ abort = ""
    /\ stale_timer_.status \in {"armed", "fired"}
    /\ stale_timer_.elapsed < stale_timer_.time + MaxOverrun * MsPerSec
    /\ stale_timer_' = [stale_timer_ EXCEPT !.elapsed = @ + MsPerSec]
    /\ gr_spent' = gr_spent + WindowTime(GR_TIMER)
    /\ llgr_spent' = llgr_spent + WindowTime(LLGR_TIMER)
    /\ UNCHANGED <<state_, close_again_, non_graceful_, gr_elapsed_,
                   llgr_elapsed_, membership_state_, families_, stats_,
                   sweep_timer_, ribs, pending, abort, peer,
                   cycle_base, ext_closes, none_entries, gr_sum, llgr_sum,
                   paths, seen, mods>>
    /\ visit' = 0
    /\ moves' = <<>>
    /\ cycles' = <<>>

\* The callback returns false: the timer is idle afterwards unless the
\* handler started it again.
restart_timer_fired ==
    /\ abort = ""
    /\ stale_timer_.status = "fired"
    /\ \E e \in Answers(peer, EnvsFromTimer) :
          LET r == RestartTimerCallback(PCM, e) IN
          Commit([r EXCEPT !.stale_timer_ =
                     IF @.status = "fired" THEN TimerIdle ELSE @], 0, 0)
    /\ UNCHANGED ext_closes

\* ProcessSweepStateActions holds no lock: its entry (the assertion and
\* GracefulRestartSweep) and its call of CloseComplete are separate steps.
sweep_timer_fired ==
    /\ abort = ""
    /\ sweep_timer_.status = "armed"
    /\ Commit([SweepStateAssert(PCM) EXCEPT !.sweep_timer_.status = "running"],
              0, 0)
    /\ UNCHANGED ext_closes

sweep_close_complete ==
    /\ abort = ""
    /\ sweep_timer_.status = "running"
    /\ \E e \in Answers(peer, EnvsFromIdle) :
          LET r == ProcessSweepStateActions(PCM, e) IN
          Commit([r EXCEPT !.sweep_timer_ =
                     IF @.status = "running" THEN TimerIdle ELSE @], 0, 0)
    /\ UNCHANGED ext_closes

\* The sweep callback at statement granularity: it does not hold mutex_, so
\* a handler that does can run between its statements.
sweep_close_complete_dispatch ==
    /\ abort = ""
    /\ sweep_timer_.status = "running"
    /\ Commit(CloseCompleteDispatch(PCM), 0, 0)
    /\ UNCHANGED ext_closes

sweep_close_complete_closure ==
    /\ abort = ""
    /\ sweep_timer_.status = "closing"
    /\ \E e \in Answers(peer, EnvsFromIdle) :
          LET r == ProcessClosureCaseNone(PCM, e) IN
          Commit([r EXCEPT !.sweep_timer_ =
                     IF @.status = "closing" THEN TimerIdle ELSE @], 0, 0)
    /\ UNCHANGED ext_closes

\* The peer calls MembershipRequest() again when its own membership
\* requests have drained and the close manager is waiting.
membership_request ==
    /\ abort = ""
    /\ membership_state_ = MEMBERSHIP_IN_WAIT
    /\ \E e \in Answers(peer, EnvsFromIdle) :
          Commit(MembershipRequest(PCM, e), 0, 0)
    /\ UNCHANGED ext_closes

\* The membership manager finishes the operation on table t and reports it.
membership_walk_done ==
    /\ abort = ""
    /\ \E t \in Tables, e \in Answers(peer, EnvsFromIdle) :
          /\ pending[t] # "none"
          /\ \A p \in Paths :
                PathTable(p) = t /\ paths[p].present => seen[p] >= 1
          /\ Commit(MembershipRequestCallback(
                        [PCM EXCEPT
                            !.ribs[t] = RegistrationAfter(pending[t], @),
                            !.pending[t] = "none"], e), 0, 0)
    /\ UNCHANGED ext_closes

\* The membership manager's walker hands path p to the path callback, which
\* takes mutex_. Visits are counted while an operation is in flight on the
\* path's table; the walk of a table ends after every path was visited.
\* visit names the path the step has handed over (0 in every other step).
path_visit ==
    /\ abort = ""
    /\ \E p \in Paths :
          LET r == MembershipPathCallback(state_, paths[p]) IN
          /\ paths[p].present
          /\ ribs[PathTable(p)] # "none"
          /\ seen[p] < MaxVisits
          /\ paths' = [paths EXCEPT ![p] = r.path]
          /\ visit' = p
          /\ mods' = [mods EXCEPT ![p] = IF r.modified THEN @ + 1 ELSE @]
          /\ seen' = [seen EXCEPT ![p] =
                         IF pending[PathTable(p)] # "none" THEN @ + 1 ELSE @]
    /\ moves' = <<>>
    /\ cycles' = <<>>
    /\ UNCHANGED <<state_, close_again_, non_graceful_, gr_elapsed_,
                   llgr_elapsed_, membership_state_, families_, stats_,
                   stale_timer_, sweep_timer_, ribs, pending, abort, peer,
                   cycle_base, ext_closes, none_entries, gr_sum, llgr_sum,
                   gr_spent, llgr_spent>>

\* The peer is back during a restart window and advertises path p again:
\* the update replaces the stale path by one without stale flags.
path_refresh ==
    /\ abort = ""
    /\ state_ \in {GR_TIMER, LLGR_TIMER}
    /\ \E p \in Paths :
          /\ paths[p].present
          /\ paths[p].flags # {}
          /\ ribs[PathTable(p)] # "none"
          /\ paths' = [paths EXCEPT ![p].flags = {}]
    /\ moves' = <<>>
    /\ cycles' = <<>>
    /\ UNCHANGED <<state_, close_again_, non_graceful_, gr_elapsed_,
                   llgr_elapsed_, membership_state_, families_, stats_,
                   stale_timer_, sweep_timer_, ribs, pending, abort, peer,
                   cycle_base, ext_closes, none_entries, gr_sum, llgr_sum,
                   gr_spent, llgr_spent, seen, mods>>
    /\ visit' = 0

\* The peer registers to a table: its session is up (no close in progress,
\* or the peer has come back during a restart window).
register ==
    /\ abort = ""
    /\ membership_state_ = MEMBERSHIP_NONE
    /\ state_ \in {NONE, GR_TIMER, LLGR_TIMER}
    /\ \E t \in Tables, reg \in {"ribin", "full"} :
          /\ ribs[t] # reg
          /\ ribs' = [ribs EXCEPT ![t] = reg]
    /\ UNCHANGED <<state_, close_again_, non_graceful_, gr_elapsed_,
                   llgr_elapsed_, membership_state_, families_, stats_,
                   stale_timer_, sweep_timer_, pending, abort, peer,
                   cycle_base, ext_closes, none_entries, gr_sum, llgr_sum,
                   gr_spent, llgr_spent, paths, seen, mods>>
    /\ visit' = 0
    /\ moves' = <<>>
    /\ cycles' = <<>>

Next ==
    \/ close
    \/ eor_received
    \/ restart_timer_expires
    \/ tick
    \/ restart_timer_fired
    \/ sweep_timer_fired
    \/ sweep_close_complete
    \/ membership_request
    \/ membership_walk_done
    \/ register

Spec == Init /\ [][Next]_vars

\* What the timer service and the membership manager do on their own: time
\* passes while the restart timer is armed, an expired timer's callback is
\* handed out and run, the sweep callback runs to its end, an operation in
\* flight completes.
Scheduled ==
    \/ tick
    \/ restart_timer_expires
    \/ restart_timer_fired
    \/ sweep_timer_fired
    \/ sweep_close_complete
    \/ membership_walk_done

\* A peer whose membership manager is usable, with a timer service and a
\* membership manager that do not stop while they have something to do.
LiveInit == Constructed /\ peer \in {USABLE, LLGR_NEVER_READY} /\ NoPaths

\* MembershipRequest() is not called again for such a peer: the close
\* manager never waits for it.
UsableNext ==
    \/ close
    \/ eor_received
    \/ restart_timer_expires
    \/ tick
    \/ restart_timer_fired
    \/ sweep_timer_fired
    \/ sweep_close_complete
    \/ membership_walk_done
    \/ register

LiveSpec == LiveInit /\ [][UsableNext]_vars /\ WF_vars(Scheduled)

\* The same object with the sweep callback interleaved statement by
\* statement with the handlers that hold mutex_.
UnlockedSweepNext ==
    \/ close
    \/ eor_received
    \/ restart_timer_expires
    \/ tick
    \/ restart_timer_fired
    \/ sweep_timer_fired
    \/ sweep_close_complete_dispatch
    \/ sweep_close_complete_closure
    \/ membership_request
    \/ membership_walk_done
    \/ register

UnlockedSweepSpec == Init /\ [][UnlockedSweepNext]_vars

\* A peer whose membership manager is usable, with the time it is given in
\* the restart windows measured.
MeasuredNext ==
    \/ close
    \/ eor_received
    \/ restart_timer_expires
    \/ tick_measured
    \/ restart_timer_fired
    \/ sweep_timer_fired
    \/ sweep_close_complete
    \/ membership_walk_done
    \/ register

MeasuredInit == Constructed /\ peer = USABLE /\ NoPaths

MeasuredSpec == MeasuredInit /\ [][MeasuredNext]_vars

\* A peer with a usable membership manager that has advertised its paths to
\* the tables it is registered to.
PathsInit ==
    /\ Constructed
    /\ peer = USABLE
    /\ paths \in [Paths -> [present : {TRUE}, flags : {{}},
                            no_llgr : BOOLEAN]]
    /\ \A p \in Paths : ribs[PathTable(p)] # "none"

PathsNext ==
    \/ UsableNext
    \/ path_visit
    \/ path_refresh

PathsSpec == PathsInit /\ [][PathsNext]_vars

\* ============================================================ properties
TimerStates == {GR_TIMER, LLGR_TIMER}
WalkStates == {STALE, LLGR_STALE, SWEEP, DELETE}

\* The step is an external Close().
CloseStep == ext_closes' = ext_closes + 1

\* The handler passed through NONE and chose a phase with process_closure.
FreshCycle ==
    \E i \in DOMAIN moves :
        /\ i + 1 \in DOMAIN moves
        /\ moves[i] = NONE
        /\ moves[i + 1] \in {STALE, DELETE}

\* C1, as stated: a close() taken in GR_TIMER or LLGR_TIMER starts a fresh
\* cycle in the same handler, a close() taken in STALE, LLGR_STALE, SWEEP or
\* DELETE leaves close_again set, and whenever close_again is cleared the
\* handler that clears it starts a fresh cycle, DELETE included.
C1_CloseNeverLost ==
    [][/\ (CloseStep /\ state_ \in TimerStates => FreshCycle')
       /\ (CloseStep /\ state_ \in WalkStates => close_again_')
       /\ (close_again_ /\ ~close_again_' => FreshCycle')]_vars

\* C1, amended: as above for every state but DELETE; a close_again latched
\* during DELETE is dropped when the DELETE walk completes, which only
\* enters NONE.
C1_CloseNeverLostBeforeDelete ==
    [][/\ (CloseStep /\ state_ \in TimerStates => FreshCycle')
       /\ (CloseStep /\ state_ \in WalkStates => close_again_')
       /\ (close_again_ /\ ~close_again_' /\ state_ # DELETE => FreshCycle')
       /\ (close_again_ /\ ~close_again_' /\ state_ = DELETE =>
              state_' = NONE /\ moves' = <<NONE>>)]_vars

\* A close latched during a walk has been served by a fresh cycle.
C1_Witness ==
    /\ Len(cycles) >= 1
    /\ cycles[1].from \in {STALE, LLGR_STALE, SWEEP}
    /\ FreshCycle
    /\ ~close_again_
    /\ stats_.nested >= 1

\* C2 (P1 from left to right, which covers the return to NONE at the end
\* of DELETE): whenever a handler has returned with state NONE, close_again
\* and non_graceful are false, both elapsed counters are 0 and families is
\* empty.
C2_NoneMeansReset ==
    state_ = NONE =>
        /\ ~close_again_
        /\ ~non_graceful_
        /\ gr_elapsed_ = 0
        /\ llgr_elapsed_ = 0
        /\ families_ = {}

\* C3: while non_graceful is set the only phase the state enters is DELETE
\* (passing through NONE), it is never in a timer phase, and the flag is
\* cleared only by the completion of a DELETE phase.
C3_NonGracefulSticks ==
    /\ [](non_graceful_ =>
             /\ state_ \notin TimerStates
             /\ state_ # NONE
             /\ (state_ # DELETE => close_again_))
    /\ [][/\ (non_graceful_ \/ non_graceful_' =>
                 \A i \in DOMAIN moves' : moves'[i] \in {NONE, DELETE})
          /\ (non_graceful_ /\ ~non_graceful_' =>
                 \E i \in DOMAIN cycles' : cycles'[i].from = DELETE)]_vars

\* A STALE walk has completed with non_graceful set and the new cycle
\* chose DELETE.
C3_Witness ==
    /\ non_graceful_
    /\ moves = <<NONE, DELETE>>
    /\ cycles[1].from = STALE
    /\ state_ = DELETE

\* C4: a handler that ends by entering GR_TIMER leaves the restart timer
\* armed with max(0, gr_time_ms - gr_elapsed_ms), one that ends by entering
\* LLGR_TIMER with max(0, llgr_time_ms - llgr_elapsed_ms); each elapsed
\* counter is the sum of the timer readings taken by the nested closes of
\* its timer phase since SWEEP was last entered or DELETE last completed.
C4_TimerOffset ==
    /\ (moves # <<>> /\ moves[Len(moves)] = GR_TIMER =>
           stale_timer_ =
               [status |-> "armed", elapsed |-> 0,
                time |-> IF gr_elapsed_ >= GrTimeSec * MsPerSec THEN 0
                         ELSE GrTimeSec * MsPerSec - gr_elapsed_])
    /\ (moves # <<>> /\ moves[Len(moves)] = LLGR_TIMER =>
           stale_timer_ =
               [status |-> "armed", elapsed |-> 0,
                time |-> IF llgr_elapsed_ >= LlgrTimeSec * MsPerSec THEN 0
                         ELSE LlgrTimeSec * MsPerSec - llgr_elapsed_])
    /\ gr_elapsed_ = gr_sum
    /\ llgr_elapsed_ = llgr_sum

\* GR_TIMER has been entered again after a nested close that had taken a
\* non-zero reading of the restart timer.
C4_Witness ==
    /\ moves # <<>>
    /\ moves[Len(moves)] = GR_TIMER
    /\ gr_elapsed_ > 0
    /\ stats_.nested >= 1

\* C5: the two timers are never armed together; the restart timer is armed
\* only in GR_TIMER and LLGR_TIMER, the sweep timer only in SWEEP.
C5_OneTimer ==
    /\ ~(stale_timer_.status = "armed" /\ sweep_timer_.status = "armed")
    /\ (stale_timer_.status = "armed" => state_ \in TimerStates)
    /\ (sweep_timer_.status = "armed" => state_ = SWEEP)

\* The sweep timer is armed after a restart timer had been armed and served.
C5_Witness ==
    /\ sweep_timer_.status = "armed"
    /\ stats_.gr_timer >= 1

\* C6: membership_state_ is IN_USE only in STALE, LLGR_STALE, SWEEP and
\* DELETE.
C6_InUseStates ==
    membership_state_ = MEMBERSHIP_IN_USE => state_ \in WalkStates

\* A walk is in flight in LLGR_STALE.
C6_Witness ==
    /\ membership_state_ = MEMBERSHIP_IN_USE
    /\ state_ = LLGR_STALE
    /\ \E t \in Tables : pending[t] # "none"

\* C7, as stated: the close counter is the number of external Close() calls.
C7_CloseCounter == stats_.close = ext_closes

\* C8, as stated: every cycle that ends has added exactly 1 to
\* deletes + sweep.
C8_OneTerminal ==
    \A i \in DOMAIN cycles : cycles[i].delta = 1

\* C8, amended: a cycle that ends from SWEEP or DELETE has added exactly 1
\* to deletes + sweep; one that a nested close ends from GR_TIMER,
\* LLGR_TIMER, STALE or LLGR_STALE has added nothing.
C8_TerminalUnlessCutShort ==
    \A i \in DOMAIN cycles :
        /\ cycles[i].from \in {SWEEP, DELETE} => cycles[i].delta = 1
        /\ cycles[i].from \in {GR_TIMER, LLGR_TIMER, STALE, LLGR_STALE} =>
               cycles[i].delta = 0

\* A cycle has ended through SWEEP after an earlier one was cut short.
C8_Witness ==
    /\ \E i \in DOMAIN cycles : cycles[i].from = SWEEP
    /\ stats_.nested >= 1
    /\ stats_.sweep = 1

\* C9: the init counter is the number of times NONE was entered,
\* construction included.
C9_InitCounter == stats_.init = none_entries

\* One handler has entered NONE both ways: by CloseComplete out of
\* GR_TIMER and by the completion of DELETE.
C9_Witness ==
    /\ Len(cycles) = 2
    /\ cycles[1].from = GR_TIMER
    /\ cycles[2].from = DELETE

\* C10, as stated: while the sweep-timer callback is executing no Close()
\* runs.
C10_SweepExcludesClose ==
    [][sweep_timer_.status = "running" => ~CloseStep]_vars

\* C11: eor_received is idempotent. For every family f, handling
\* eor_received(f) twice in a row leaves the object as handling it once; an
\* EoR for a family that is not in families changes nothing; the restart
\* timer is re-armed, at delay 0, by exactly the EoR that empties a
\* non-empty families.
C11_EorIdempotent ==
    \A f \in Families \cup {UNSPEC} :
        LET once == ProcessEORMarkerReceived(PCM, f)
            twice == ProcessEORMarkerReceived(once, f)
        IN  /\ twice = once
            /\ (f \notin families_ /\ (f # UNSPEC \/ families_ = {}) =>
                   once = PCM)
            /\ (once.stale_timer_ # stale_timer_ =>
                   families_ # {} /\ once.families_ = {})
            /\ (state_ \in TimerStates /\ families_ # {}
                    /\ once.families_ = {} =>
                   once.stale_timer_ =
                       [status |-> "armed", time |-> 0, elapsed |-> 0])
            /\ once.state_ = state_
            /\ once.abort = ""

\* The EoR that emptied families has re-armed a restart timer that had been
\* armed with the whole restart time.
C11_Witness ==
    /\ state_ = GR_TIMER
    /\ gr_elapsed_ = 0
    /\ families_ = {}
    /\ stale_timer_ = [status |-> "armed", time |-> 0, elapsed |-> 0]

\* The handler returned with the membership manager unusable.
InWait == membership_state_ = MEMBERSHIP_IN_WAIT

\* The operations a request issues in state st with registrations rb.
IssuedOps(st, rb) ==
    [t \in Tables |->
        IF rb[t] # "none" THEN MembershipOp(st, rb[t]) ELSE "none"]

\* C13: while membership_state_ is IN_WAIT no membership operation is in
\* flight, and every step either keeps waiting with state, families, the
\* elapsed counters and the registrations unchanged (a close only latches
\* close_again and non_graceful, any other event changes none of these), or
\* is the MembershipRequest() that finds the manager usable: it issues the
\* operations of the unchanged state, or, with no table registered, runs the
\* walk-done handling from that state. (The second disjunct of the release
\* is the request that finds can_use true and membership_mgr() NULL: the
\* manager is not usable, nothing is issued and nothing but
\* membership_state_ changes.)
C13_WaitFreezes ==
    /\ [](InWait => \A t \in Tables : pending[t] = "none")
    /\ [][InWait =>
            /\ abort' = ""
            /\ \/ /\ InWait'
                  /\ state_' = state_
                  /\ moves' = <<>>
                  /\ UNCHANGED <<families_, gr_elapsed_, llgr_elapsed_, ribs,
                                 pending, sweep_timer_>>
                  /\ (close_again_ => close_again_')
                  /\ (non_graceful_ => non_graceful_')
                  /\ (CloseStep \/ UNCHANGED <<close_again_, non_graceful_,
                                               stats_>>)
               \/ /\ ~InWait'
                  /\ ~CloseStep
                  /\ \/ /\ pending' = IssuedOps(state_, ribs)
                        /\ membership_state_' = MEMBERSHIP_IN_USE
                        /\ moves' = <<>>
                        /\ UNCHANGED <<state_, close_again_, non_graceful_,
                                       families_, gr_elapsed_, llgr_elapsed_,
                                       ribs, stats_>>
                     \/ /\ membership_state_' = MEMBERSHIP_IN_USE
                        /\ moves' = <<>>
                        /\ UNCHANGED <<state_, close_again_, non_graceful_,
                                       families_, gr_elapsed_, llgr_elapsed_,
                                       ribs, pending, stats_>>
                     \/ /\ \A t \in Tables : ribs[t] = "none"
                        /\ IF state_ = SWEEP /\ ~close_again_
                           THEN /\ moves' = <<>>
                                /\ state_' = SWEEP
                                /\ membership_state_' = MEMBERSHIP_NONE
                                /\ sweep_timer_'.status = "armed"
                           ELSE /\ moves' # <<>>
                                /\ moves'[1] =
                                     CASE state_ = DELETE -> NONE
                                       [] close_again_ -> NONE
                                       [] state_ = STALE -> GR_TIMER
                                       [] OTHER -> LLGR_TIMER]_vars

\* A close has been latched while the LLGR_STALE walk waits for the
\* membership manager.
C13_Witness ==
    /\ InWait
    /\ state_ = LLGR_STALE
    /\ close_again_
    /\ stats_.nested >= 1

\* C16, as stated: the object is never left with membership_state_ IN_USE
\* and no completion pending.
C16_NoManagerIsEmptyWalk ==
    membership_state_ = MEMBERSHIP_IN_USE =>
        \E t \in Tables : pending[t] # "none"

\* The restart-timer callback is the step by which a handed-out callback
\* ends with the timer idle.
StaleRestartCallback ==
    /\ stale_timer_.status = "fired"
    /\ stale_timer_'.status = "idle"
    /\ state_ \notin TimerStates

C19_RibInKept ==
    /\ [](\A t \in Tables :
             /\ pending[t] \in {"Unregister", "UnregisterRibIn"} =>
                    state_ = DELETE
             /\ pending[t] # "none" /\ state_ # DELETE =>
                    /\ state_ \in {STALE, LLGR_STALE, SWEEP}
                    /\ pending[t] = IF ribs[t] = "full"
                                    THEN "UnregisterRibOut" ELSE "WalkRibIn"
                    /\ ribs[t] # "none")
    /\ [][\A t \in Tables :
             ribs[t] # "none" /\ ribs'[t] = "none" => state_ = DELETE]_vars

\* The SWEEP walk is in flight on a fully registered table and on a
\* RIB-In-only table.
C19_Witness ==
    /\ state_ = SWEEP
    /\ \E t \in Tables : pending[t] = "UnregisterRibOut"
    /\ \E t \in Tables : pending[t] = "WalkRibIn"

\* The phase after ph for a peer that never comes back.
NeverReadyOrder(ph) ==
    CASE ph = NONE -> STALE
      [] ph = STALE -> GR_TIMER
      [] ph = GR_TIMER -> LLGR_STALE
      [] ph = LLGR_STALE -> LLGR_TIMER
      [] ph = LLGR_TIMER -> DELETE
      [] OTHER -> NONE

\* C12: with a usable membership manager, walks that complete and timers
\* that fire, the state returns to NONE and stays there once no further
\* close() arrives; for a graceful close with LLGR negotiated and a peer
\* that never becomes ready, every handler that is not cut short by a
\* nested close moves the state along STALE, GR_TIMER, LLGR_STALE,
\* LLGR_TIMER, DELETE, NONE.
C12_CycleTerminates ==
    /\ <>[](state_ = NONE)
    /\ [][peer = LLGR_NEVER_READY /\ ~close_again_
             /\ ~(CloseStep /\ state_ # NONE) =>
            \A i \in DOMAIN moves' :
                moves'[i] = NeverReadyOrder(IF i = 1 THEN state_
                                            ELSE moves'[i - 1])]_vars

\* The LLGR timer of a peer that never came back has expired and the DELETE
\* walk has returned the state to NONE.
C12_Witness ==
    /\ peer = LLGR_NEVER_READY
    /\ state_ = NONE
    /\ stats_.stale = 1
    /\ stats_.llgr_timer = 1
    /\ stats_.deletes = 1
    /\ \E i \in DOMAIN cycles : cycles[i].from = DELETE

\* C18, as stated: no assertion of the source fails, whatever the
\* interleaving of close, eor_received, the timer callbacks and the walk
\* completions.
C18_NoAssertion == abort = ""

\* C20, as stated: between two resets of gr_elapsed the time spent in
\* GR_TIMER waiting on an unexpired restart timer, summed over the nested
\* closes, never exceeds the configured GR time; likewise for LLGR_TIMER
\* and the configured LLGR time.
C20_WindowBounded ==
    /\ gr_spent <= GrTimeSec * MsPerSec
    /\ llgr_spent <= LlgrTimeSec * MsPerSec

\* C14: a path callback in SWEEP deletes the visited path when it carries
\* the stale or the llgr-stale flag and leaves a path with neither flag as
\* it was; in NONE, GR_TIMER and LLGR_TIMER it modifies nothing, and in
\* DELETE it deletes the visited path. When the state leaves SWEEP it goes
\* to NONE, and by then no path left in a registered table carries a flag.
C14_SweepDeletesStale ==
    [][/\ \A p \in Paths :
            visit' = p =>
              CASE state_ \in {NONE, GR_TIMER, LLGR_TIMER} ->
                     paths' = paths /\ mods'[p] = mods[p]
                [] state_ = SWEEP ->
                     /\ \A q \in Paths \ {p} : paths'[q] = paths[q]
                     /\ IF IsStale(paths[p]) \/ IsLlgrStale(paths[p])
                        THEN ~paths'[p].present /\ mods'[p] = mods[p] + 1
                        ELSE paths'[p] = paths[p] /\ mods'[p] = mods[p]
                [] state_ = DELETE ->
                     ~paths'[p].present /\ mods'[p] = mods[p] + 1
                [] OTHER -> TRUE
       /\ (moves' # <<>> /\ state_ = SWEEP) =>
            /\ moves'[1] = NONE
            /\ \A p \in Paths :
                 paths[p].present /\ ribs[PathTable(p)] # "none"
                     => paths[p].flags = {}]_vars

\* A graceful close has ended through SWEEP: the path the new session did
\* not refresh is gone, the refreshed one is there without a flag.
C14_Witness ==
    /\ state_ = NONE
    /\ stats_.sweep >= 1
    /\ stats_.deletes = 0
    /\ stats_.nested = 0
    /\ ~paths[1].present
    /\ paths[2].present
    /\ paths[2].flags = {}

\* C15: within one phase the path callback modifies a path at most once:
\* a visit in STALE of a path flagged stale, and a visit in LLGR_STALE of
\* a path flagged llgr-stale that has no NO_LLGR community, changes nothing.
C15_VisitIdempotent ==
    [][\A p \in Paths :
         /\ visit' = p /\ state_ = STALE /\ IsStale(paths[p])
                => paths' = paths /\ mods'[p] = mods[p]
         /\ visit' = p /\ state_ = LLGR_STALE /\ IsLlgrStale(paths[p])
              /\ ~paths[p].no_llgr
                => paths' = paths /\ mods'[p] = mods[p]
         /\ state_' \in {STALE, LLGR_STALE} => mods'[p] <= 1]_vars

\* STALE is run again after a nested close: the path refreshed in GR_TIMER
\* was visited twice and modified once, the path still stale from the
\* previous cycle was visited and not modified.
C15_Witness ==
    /\ state_ = STALE
    /\ stats_.stale >= 2
    /\ seen[1] = MaxVisits
    /\ mods[1] = 1
    /\ seen[2] >= 1
    /\ mods[2] = 0
    /\ IsStale(paths[2])

====
